---- MODULE Spec2Model ----
(***************************************************************************)
(* A model of src/pagerank.py: transition_model, sample_pagerank,          *)
(* iterate_pagerank and estimate_page_rank.                                *)
(*                                                                         *)
(* Pages are the integers 1..Len(corpus); the order 1, 2, ... is the       *)
(* iteration order of the corpus dictionary.  A corpus is a sequence of    *)
(* sets of pages: corpus[p] is the set of pages p links to.                *)
(*                                                                         *)
(* The damping factor is held in hundredths (85 is 0.85).                  *)
(*                                                                         *)
(* Numbers of transition_model and sample_pagerank are exact rationals     *)
(* <<numerator, denominator>> in lowest terms.  The ranks of               *)
(* iterate_pagerank are fixed-point numbers with SCALE units to 1.0 and    *)
(* truncating division, because the denominators of the exact ranks grow   *)
(* with every round.  Floating-point round-off is not modelled.            *)
(***************************************************************************)
EXTENDS Integers, Sequences, FiniteSets, TLC

VARIABLES call, corpus, damping_factor, n, pc, error, page, dist, samples, s,
          page_rank, linking_pages_dict, loop, i, round_start

vars == <<call, corpus, damping_factor, n, pc, error, page, dist, samples, s,
          page_rank, linking_pages_dict, loop, i, round_start>>

(* ---------------------------- bounds ---------------------------------- *)
MaxPages == 3
MaxSamples == 3

(* ------------------------- program constants -------------------------- *)
DAMPING == 85

SCALE == 1000 * 1000

threshold == SCALE \div 1000

(* The damping factors explored: 0, DAMPING and 1, in hundredths. *)
Dampings == {0, DAMPING, 100}

(* The sample counts explored: the non-positive ones, a walk of the start  *)
(* page alone and the longest walk (shorter walks are its prefixes).       *)
SampleCounts == {-1, 0, 1, MaxSamples}

(* ------------------------------ inputs -------------------------------- *)
(* The corpora crawl can produce: every link target is a page of the      *)
(* corpus and no page links to itself.                                    *)
Corpora ==
  UNION { { c \in [1..np -> SUBSET (1..np)] : \A p \in 1..np : p \notin c[p] }
          : np \in 0..MaxPages }

(* --------------------------- exact rationals -------------------------- *)
Abs(x) == IF x < 0 THEN -x ELSE x

RECURSIVE GCD(_, _)
GCD(a, b) == IF b = 0 THEN a ELSE GCD(b, a % b)

Rat(num, den) ==
  LET g == GCD(Abs(num), Abs(den))
      sg == IF den < 0 THEN -1 ELSE 1
  IN  <<(sg * num) \div g, (sg * den) \div g>>

RAdd(a, b) == Rat(a[1] * b[2] + b[1] * a[2], a[2] * b[2])

RSub(a, b) == Rat(a[1] * b[2] - b[1] * a[2], a[2] * b[2])

RDivInt(a, k) == Rat(a[1], a[2] * k)

ROne == <<1, 1>>

RZero == <<0, 1>>

(* The damping factor as a rational. *)
DampingRat(d) == Rat(d, 100)

RECURSIVE RSumTo(_, _)
RSumTo(f, k) == IF k = 0 THEN RZero ELSE RAdd(RSumTo(f, k - 1), f[k])

(* sum(f.values()) of a table of rationals *)
RSum(f) == RSumTo(f, Len(f))

RECURSIVE SumTo(_, _)
SumTo(f, k) == IF k = 0 THEN 0 ELSE SumTo(f, k - 1) + f[k]

(* sum(f.values()) of a table of integers *)
Sum(f) == SumTo(f, Len(f))

(* --------------------------- transition_model ------------------------- *)
transition_model_bad_link_chance(c, p, d) ==
  LET total_pages == Len(c)
      num_links == Cardinality(c[p])
  IN  IF num_links = 0
        THEN [q \in DOMAIN c |-> Rat(1, total_pages)]
        ELSE LET random_chance == RDivInt(RSub(ROne, DampingRat(d)), total_pages)
                 link_chance == RDivInt(DampingRat(d), total_pages)
             IN  [q \in DOMAIN c |->
                    IF q \in c[p] THEN RAdd(random_chance, link_chance)
                                  ELSE random_chance]

transition_model_no_dangling_case(c, p, d) ==
  LET total_pages == Len(c)
      num_links == Cardinality(c[p])
      random_chance == RDivInt(RSub(ROne, DampingRat(d)), total_pages)
  IN  IF num_links = 0
        THEN [q \in DOMAIN c |-> random_chance]
        ELSE LET link_chance == RDivInt(DampingRat(d), num_links)
             IN  [q \in DOMAIN c |->
                    IF q \in c[p] THEN RAdd(random_chance, link_chance)
                                  ELSE random_chance]

transition_model(c, p, d) ==
  LET total_pages == Len(c)
      num_links == Cardinality(c[p])
  IN  IF num_links = 0
        THEN LET chance == Rat(1, total_pages)
             IN  [q \in DOMAIN c |-> chance]
        ELSE LET random_chance == RDivInt(RSub(ROne, DampingRat(d)), total_pages)
                 link_chance == RDivInt(DampingRat(d), num_links)
             IN  [q \in DOMAIN c |->
                    IF q \in c[p] THEN RAdd(random_chance, link_chance)
                                  ELSE random_chance]

(* ---------------------------- sample_pagerank ------------------------- *)
(* random.choices(population, weights): the pages of positive weight. *)
Choices(d) == { q \in DOMAIN d : d[q][1] > 0 }

num_draws_off_by_one(k) == k

(* range(n - 1): the number of draws after the start page *)
num_draws(k) == k - 1

(* samples[page] += 1 *)
visit(sm, p) == [sm EXCEPT ![p] = @ + 1]

(* ---------------------------- iterate_pagerank ------------------------ *)
linking_pages_no_dangling(c, p) ==
  SelectSeq([k \in 1..Len(c) |-> k], LAMBDA q : p \in c[q])

(* The list built for one page by the inner loop over the corpus. *)
linking_pages(c, p) ==
  SelectSeq([k \in 1..Len(c) |-> k],
            LAMBDA q : p \in c[q] \/ Cardinality(c[q]) = 0)

RECURSIVE component_to(_, _, _, _, _)
component_to(c, total_pages, ranks, lp, k) ==
  IF k = 0 THEN 0
  ELSE LET linking_page == lp[k]
           num_links == Cardinality(c[linking_page])
       IN  component_to(c, total_pages, ranks, lp, k - 1)
           + (IF num_links = 0 THEN ranks[linking_page] \div total_pages
                               ELSE ranks[linking_page] \div num_links)

estimate_page_rank(c, d, total_pages, current_page_ranks, lp) ==
  LET component == component_to(c, total_pages, current_page_ranks, lp, Len(lp))
  IN  ((100 - d) * SCALE) \div (100 * total_pages) + (d * component) \div 100

keep_looping_last_only(l, current, estimate) ==
  current - estimate > threshold \/ estimate - current > threshold

(* loop after the comparison of one page *)
keep_looping(l, current, estimate) ==
  l \/ current - estimate > threshold \/ estimate - current > threshold

loop_reset_missing(l) == l

(* loop = False at the top of a round *)
loop_reset(l) == FALSE

(* ------------------------------- Init --------------------------------- *)
Init ==
  /\ call = "none"
  /\ corpus = <<>>
  /\ damping_factor = 0
  /\ pc = "idle"
  /\ error = "none"
  /\ page = 0
  /\ n = 0
  /\ dist = <<>>
  /\ samples = <<>>
  /\ s = 0
  /\ page_rank = <<>>
  /\ linking_pages_dict = <<>>
  /\ loop = FALSE
  /\ i = 0
  /\ round_start = <<>>

(* ------------------------------ actions ------------------------------- *)
(* The caller invokes transition_model with a page of the corpus. *)
InvokeTransitionModel ==
  /\ pc = "idle"
  /\ call' = "transition_model"
  /\ corpus' \in Corpora
  /\ Len(corpus') > 0
  /\ page' \in DOMAIN corpus'
  /\ damping_factor' \in Dampings
  /\ pc' = "start"
  /\ UNCHANGED <<n, error, dist, samples, s, page_rank, linking_pages_dict,
                 loop, i, round_start>>

(* The caller invokes sample_pagerank. *)
InvokeSample ==
  /\ pc = "idle"
  /\ call' = "sample_pagerank"
  /\ corpus' \in Corpora
  /\ damping_factor' \in Dampings
  /\ n' \in SampleCounts
  /\ pc' = "start"
  /\ UNCHANGED <<page, error, dist, samples, s, page_rank, linking_pages_dict,
                 loop, i, round_start>>

(* The caller invokes iterate_pagerank. *)
InvokeIterate ==
  /\ pc = "idle"
  /\ call' = "iterate_pagerank"
  /\ corpus' \in Corpora
  /\ damping_factor' \in Dampings
  /\ pc' = "start"
  /\ UNCHANGED <<page, n, error, dist, samples, s, page_rank,
                 linking_pages_dict, loop, i, round_start>>

TransitionModelCall ==
  /\ call = "transition_model"
  /\ pc = "start"
  /\ dist' = transition_model(corpus, page, damping_factor)
  /\ pc' = "returned"
  /\ UNCHANGED <<call, corpus, damping_factor, n, error, page, samples, s,
                 page_rank, linking_pages_dict, loop, i, round_start>>

(* lines 96-102, where random.choice of an empty list raises IndexError *)
SampleStart ==
  /\ call = "sample_pagerank"
  /\ pc = "start"
  /\ IF Len(corpus) = 0
       THEN /\ pc' = "raised"
            /\ error' = "IndexError"
            /\ UNCHANGED <<page, dist, samples>>
       ELSE /\ \E p \in DOMAIN corpus :
                 /\ page' = p
                 /\ dist' = transition_model(corpus, p, damping_factor)
                 /\ samples' = visit([q \in DOMAIN corpus |-> 0], p)
            /\ pc' = "sampling"
            /\ UNCHANGED error
  /\ UNCHANGED <<call, corpus, damping_factor, n, s, page_rank,
                 linking_pages_dict, loop, i, round_start>>

(* lines 104-110, one pass of the loop *)
SampleDraw ==
  /\ call = "sample_pagerank"
  /\ pc = "sampling"
  /\ s < num_draws(n)
  /\ \E p \in Choices(dist) :
       /\ page' = p
       /\ dist' = transition_model(corpus, p, damping_factor)
       /\ samples' = visit(samples, p)
  /\ s' = s + 1
  /\ UNCHANGED <<call, corpus, damping_factor, n, pc, error, page_rank,
                 linking_pages_dict, loop, i, round_start>>

(* lines 111-117, where samples[s] / n raises ZeroDivisionError for n = 0 *)
SampleFinish ==
  /\ call = "sample_pagerank"
  /\ pc = "sampling"
  /\ ~(s < num_draws(n))
  /\ IF n = 0
       THEN /\ pc' = "raised"
            /\ error' = "ZeroDivisionError"
            /\ UNCHANGED page_rank
       ELSE /\ page_rank' = [q \in DOMAIN samples |-> Rat(samples[q], n)]
            /\ pc' = "returned"
            /\ UNCHANGED error
  /\ UNCHANGED <<call, corpus, damping_factor, n, page, dist, samples, s,
                 linking_pages_dict, loop, i, round_start>>

(* lines 129-139 *)
IterBuildLinkingPages ==
  /\ call = "iterate_pagerank"
  /\ pc = "start"
  /\ linking_pages_dict' = [p \in DOMAIN corpus |-> linking_pages(corpus, p)]
  /\ pc' = "init_ranks"
  /\ UNCHANGED <<call, corpus, damping_factor, n, error, page, dist, samples,
                 s, page_rank, loop, i, round_start>>

(* lines 141-146, where 1 / total_pages raises ZeroDivisionError *)
IterInitRanks ==
  /\ call = "iterate_pagerank"
  /\ pc = "init_ranks"
  /\ LET total_pages == Len(corpus)
     IN  IF total_pages = 0
           THEN /\ pc' = "raised"
                /\ error' = "ZeroDivisionError"
                /\ UNCHANGED <<page_rank, loop>>
           ELSE /\ page_rank' = [p \in DOMAIN corpus |-> SCALE \div total_pages]
                /\ loop' = TRUE
                /\ pc' = "while"
                /\ UNCHANGED error
  /\ UNCHANGED <<call, corpus, damping_factor, n, page, dist, samples, s,
                 linking_pages_dict, i, round_start>>

(* lines 147-148 and 161: the test of the while loop *)
IterWhile ==
  /\ call = "iterate_pagerank"
  /\ pc = "while"
  /\ IF loop
       THEN /\ loop' = loop_reset(loop)
            /\ i' = 1
            /\ round_start' = page_rank
            /\ pc' = "for"
       ELSE /\ pc' = "returned"
            /\ UNCHANGED <<loop, i, round_start>>
  /\ UNCHANGED <<call, corpus, damping_factor, n, error, page, dist, samples,
                 s, page_rank, linking_pages_dict>>

(* lines 150-159, one pass of the for loop *)
IterPage ==
  /\ call = "iterate_pagerank"
  /\ pc = "for"
  /\ i <= Len(corpus)
  /\ LET estimate == estimate_page_rank(corpus, damping_factor, Len(corpus),
                                        page_rank, linking_pages_dict[i])
         current == page_rank[i]
     IN  /\ loop' = keep_looping(loop, current, estimate)
         /\ page_rank' = [page_rank EXCEPT ![i] = estimate]
  /\ i' = i + 1
  /\ UNCHANGED <<call, corpus, damping_factor, n, pc, error, page, dist,
                 samples, s, linking_pages_dict, round_start>>

(* line 150, the for loop is exhausted *)
IterEndFor ==
  /\ call = "iterate_pagerank"
  /\ pc = "for"
  /\ i > Len(corpus)
  /\ pc' = "while"
  /\ UNCHANGED <<call, corpus, damping_factor, n, error, page, dist, samples,
                 s, page_rank, linking_pages_dict, loop, i, round_start>>

(* The steps of a call of transition_model. *)
TransitionNext ==
  \/ InvokeTransitionModel
  \/ TransitionModelCall

(* The steps of a call of sample_pagerank. *)
SampleNext ==
  \/ InvokeSample
  \/ SampleStart
  \/ SampleDraw
  \/ SampleFinish

(* The steps of iterate_pagerank once it is called. *)
IterSteps ==
  \/ IterBuildLinkingPages
  \/ IterInitRanks
  \/ IterWhile
  \/ IterPage
  \/ IterEndFor

(* The steps of a call of iterate_pagerank. *)
IterNext ==
  \/ InvokeIterate
  \/ IterSteps

Next ==
  \/ TransitionNext
  \/ SampleNext
  \/ IterNext

Spec == Init /\ [][Next]_vars

SpecTransition == Init /\ [][TransitionNext]_vars

SpecSample == Init /\ [][SampleNext]_vars

SpecIterate == Init /\ [][IterNext]_vars

(* The program is one thread: a call of iterate_pagerank that can take a   *)
(* step takes it.                                                          *)
FairSpecIterate == SpecIterate /\ WF_vars(IterSteps)

(* ------------------------------ properties ---------------------------- *)
IterCall == call = "iterate_pagerank"

SampleCall == call = "sample_pagerank"

Dangling(q) == corpus[q] = {}

Elements(sq) == { sq[k] : k \in 1..Len(sq) }

(* Every page changed by at most the threshold between the two tables. *)
AllWithin(old, new) == \A p \in DOMAIN old : Abs(old[p] - new[p]) <= threshold

(* A round of the while loop has run to its end. *)
IterRoundEnded == IterCall /\ pc \in {"while", "returned"} /\ round_start # <<>>

(* C1: every distribution transition_model returns has exactly the pages   *)
(* of the corpus as its keys, no negative value, and values that sum to 1. *)
C1_TransitionSumsToOne ==
  (dist # <<>>) =>
     /\ DOMAIN dist = DOMAIN corpus
     /\ \A q \in DOMAIN dist : dist[q][1] >= 0
     /\ RSum(dist) = ROne

C1_Witness ==
  /\ call = "transition_model"
  /\ pc = "returned"
  /\ Len(corpus) = 3
  /\ Cardinality(corpus[page]) = 1
  /\ damping_factor = DAMPING

(* C2: during the walk the visit counts sum to the number of draws made so *)
(* far; with n >= 1 the counts of the returned table sum to n, every value *)
(* is count / n, lies in [0, 1], and the values sum to exactly 1.          *)
C2_SampleSumsToOne ==
  SampleCall =>
     /\ (pc = "sampling" => Sum(samples) = s + 1)
     /\ (pc = "returned" /\ n >= 1 =>
           /\ Sum(samples) = n
           /\ \A q \in DOMAIN corpus :
                /\ page_rank[q] = Rat(samples[q], n)
                /\ 0 <= page_rank[q][1]
                /\ page_rank[q][1] <= page_rank[q][2]
           /\ RSum(page_rank) = ROne)

C2_Witness ==
  /\ SampleCall
  /\ pc = "returned"
  /\ n >= 3
  /\ Len(corpus) >= 2
  /\ \E q \in DOMAIN corpus : samples[q] >= 2

(* C3 (as claimed): the table iterate_pagerank returns sums to 1.0 within  *)
(* 0.001.                                                                  *)
C3_IterateSumsToOne ==
  (IterCall /\ pc = "returned") => Abs(Sum(page_rank) - SCALE) <= threshold

(* C4: for a page without links transition_model gives every page of the   *)
(* corpus exactly 1 / total_pages, whatever the damping factor.            *)
C4_DanglingUniform ==
  (call = "transition_model" /\ pc = "returned" /\ Dangling(page)) =>
     \A q \in DOMAIN corpus : dist[q] = Rat(1, Len(corpus))

C4_Witness ==
  /\ call = "transition_model"
  /\ pc = "returned"
  /\ Dangling(page)
  /\ Len(corpus) >= 2
  /\ damping_factor = DAMPING

(* C5 (as claimed): with an empty corpus sample_pagerank and               *)
(* iterate_pagerank fail with EmptyGraphError before anything is computed. *)
C5_EmptyGraphRejected ==
  (Len(corpus) = 0 /\ (SampleCall \/ IterCall)) =>
     \/ pc = "start"
     \/ pc = "raised" /\ error = "EmptyGraphError"

(* C6 (as claimed): with n <= 0 sample_pagerank fails with InvalidParameter *)
(* and never returns a table.                                              *)
C6_NonPositiveCountRejected ==
  (SampleCall /\ Len(corpus) > 0 /\ n <= 0 /\ pc \in {"returned", "raised"}) =>
     pc = "raised" /\ error = "InvalidParameter"

(* C7 (as claimed): at the end of a round every page holds the estimate    *)
(* computed from the table as it was when the round began.                 *)
C7_RoundReadsSnapshot ==
  (IterRoundEnded /\ pc = "while") =>
     \A p \in DOMAIN corpus :
        page_rank[p] = estimate_page_rank(corpus, damping_factor, Len(corpus),
                                          round_start, linking_pages_dict[p])

(* C8: after a round in which every page changed by at most 0.001 the loop *)
(* stops and returns the table of that round; after a round in which some  *)
(* page changed by more it goes on; every round processes every page.      *)
C8_WholeRoundConvergence ==
  [][ (IterRoundEnded /\ pc = "while") =>
         /\ i = Len(corpus) + 1
         /\ (pc' = "returned") <=> AllWithin(round_start, page_rank)
         /\ (pc' = "returned") => page_rank' = page_rank
         /\ (pc' # "returned") => (pc' = "for" /\ i' = 1) ]_vars

C8_Witness ==
  /\ IterCall
  /\ pc = "returned"
  /\ AllWithin(round_start, page_rank)
  /\ \E p \in DOMAIN corpus : page_rank[p] # round_start[p]
  /\ round_start # [p \in DOMAIN corpus |-> SCALE \div Len(corpus)]

(* C9: the backlink index maps every page p to the pages q with p in       *)
(* corpus[q] or corpus[q] empty, each listed once, so a page without links *)
(* is in the list of every page, its own included.                         *)
C9_BacklinkIndex ==
  (IterCall /\ pc # "start") =>
     /\ DOMAIN linking_pages_dict = DOMAIN corpus
     /\ \A p \in DOMAIN corpus :
          LET expected == { q \in DOMAIN corpus : p \in corpus[q] \/ Dangling(q) }
          IN  /\ Elements(linking_pages_dict[p]) = expected
              /\ Len(linking_pages_dict[p]) = Cardinality(expected)
     /\ \A q \in DOMAIN corpus :
          Dangling(q) => \A p \in DOMAIN corpus : q \in Elements(linking_pages_dict[p])

C9_Witness ==
  /\ IterCall
  /\ pc = "init_ranks"
  /\ Len(corpus) = 3
  /\ \E q \in DOMAIN corpus : Dangling(q)
  /\ \E q \in DOMAIN corpus : ~Dangling(q)
  /\ \E p \in DOMAIN corpus : Len(linking_pages_dict[p]) = 1

(* C10: with a non-empty corpus and a damping factor below 1 the loop of   *)
(* iterate_pagerank ends and the call returns.                             *)
C10_IterateTerminates ==
  (IterCall /\ Len(corpus) > 0 /\ damping_factor < 100) ~> (pc = "returned")

C10_Witness ==
  /\ IterCall
  /\ pc = "returned"
  /\ damping_factor = DAMPING
  /\ Len(corpus) = 3
  /\ ~AllWithin([p \in DOMAIN corpus |-> SCALE \div Len(corpus)], page_rank)

====
